---- MODULE Spec2Model ----
(***************************************************************************)
(* Model of web/script.js of mod2fix: the crash-log analysis engine        *)
(* (parseLogContent, extractMCVersion, extractLoader) and the page's       *)
(* loading/results display driven by analyzeLog, scanModsFolder and their  *)
(* timers.                                                                 *)
(*                                                                         *)
(* A JavaScript string is a sequence of one-character strings, so that     *)
(* searching, slicing, case folding and templating are computed character  *)
(* by character.  Regular expressions are modelled by matchers that follow *)
(* the pattern left to right.  lastIndex and match.index are 0-based as in *)
(* JavaScript; position p of a sequence is index p - 1.                    *)
(***************************************************************************)
EXTENDS Integers, Sequences, FiniteSets, TLC

VARIABLES
    content,          \* parseLogContent's argument of the current/last call
    results,          \* the results object of the current/last call
    lastIndex,        \* depRegex.lastIndex
    matches,          \* history: the match objects exec returned in this call
    pc,               \* position inside parseLogContent / the timer callback
    calls,            \* history: the number of direct calls of parseLogContent
    loadingDisplay,   \* document.getElementById('loading').style.display
    resultsDisplay,   \* document.getElementById('results').style.display
    resultsContent,   \* what displayResults last wrote to #results-content
    timers            \* pending setTimeout callbacks, in creation order

vars == <<content, results, lastIndex, matches, pc, calls,
          loadingDisplay, resultsDisplay, resultsContent, timers>>

engineVars == <<content, results, lastIndex, matches, pc, calls>>

uiVars == <<loadingDisplay, resultsDisplay, resultsContent, timers>>

----
\* Characters and string literals of the source

Digits == {"0", "1", "2", "3", "4", "5", "6", "7", "8", "9"}

Whitespace == {" ", "\t", "\n"}

UpperChars ==
    <<"A", "B", "C", "D", "E", "F", "G", "H", "I", "J", "K", "L", "M",
      "N", "O", "P", "Q", "R", "S", "T", "U", "V", "W", "X", "Y", "Z">>

LowerChars ==
    <<"a", "b", "c", "d", "e", "f", "g", "h", "i", "j", "k", "l", "m",
      "n", "o", "p", "q", "r", "s", "t", "u", "v", "w", "x", "y", "z">>

\* String.prototype.toLowerCase on one character
LowerChar(c) ==
    IF \E i \in 1..Len(UpperChars) : UpperChars[i] = c
    THEN LowerChars[CHOOSE i \in 1..Len(UpperChars) : UpperChars[i] = c]
    ELSE c

\* String.prototype.toLowerCase
toLowerCase(s) == [i \in 1..Len(s) |-> LowerChar(s[i])]

\* String.prototype.includes: sub occurs in s, compared exactly
includes(s, sub) ==
    \E i \in 1..(Len(s) - Len(sub) + 1) : SubSeq(s, i, i + Len(sub) - 1) = sub

Unknown ==
    <<"U", "n", "k", "n", "o", "w", "n">>

Fabric ==
    <<"F", "a", "b", "r", "i", "c">>

Forge ==
    <<"F", "o", "r", "g", "e">>

LowerFabric ==
    <<"f", "a", "b", "r", "i", "c">>

LowerForge ==
    <<"f", "o", "r", "g", "e">>

MinecraftWord ==
    <<"M", "i", "n", "e", "c", "r", "a", "f", "t">>

ModWord ==
    <<"m", "o", "d">>

RequiresWord ==
    <<" ", "r", "e", "q", "u", "i", "r", "e", "s", " ">>

ClassNotFoundException ==
    <<"C", "l", "a", "s", "s", "N", "o", "t", "F", "o", "u", "n", "d", "E", "x", "c", "e", "p", "t", "i", "o", "n">>

Mixin ==
    <<"M", "i", "x", "i", "n">>

MissingClass ==
    <<"M", "i", "s", "s", "i", "n", "g", " ", "C", "l", "a", "s", "s">>

MixinConflict ==
    <<"M", "i", "x", "i", "n", " ", "C", "o", "n", "f", "l", "i", "c", "t">>

PagePrefix ==
    <<"h", "t", "t", "p", "s", ":", "/", "/", "m", "o", "d", "r", "i", "n", "t", "h", ".", "c", "o", "m", "/", "m", "o", "d", "/">>

VersionSuffix ==
    <<"/", "v", "e", "r", "s", "i", "o", "n", "/", "l", "a", "t", "e", "s", "t">>

CdnPrefix ==
    <<"h", "t", "t", "p", "s", ":", "/", "/", "c", "d", "n", ".", "m", "o", "d", "r", "i", "n", "t", "h", ".", "c", "o", "m", "/", "d", "a", "t", "a", "/">>

DownloadSuffix ==
    <<"/", "v", "e", "r", "s", "i", "o", "n", "s", "/", "l", "a", "t", "e", "s", "t", ".", "j", "a", "r">>
----
\* Pattern matching primitives

\* the character at position p, or "" past either end of the string
CharAt(s, p) == IF p \in 1..Len(s) THEN s[p] ELSE ""

\* a greedy run of a character class (\s+, \d+): the position after the
\* longest run of characters of class that starts at p (p itself: no run)
RECURSIVE SpanClass(_, _, _)
SpanClass(s, p, class) ==
    IF p \in 1..Len(s) /\ s[p] \in class THEN SpanClass(s, p + 1, class) ELSE p

\* a greedy \S+ run: the position after the longest run of non-whitespace
RECURSIVE SpanNonSpace(_, _)
SpanNonSpace(s, p) ==
    IF p \in 1..Len(s) /\ s[p] \notin Whitespace THEN SpanNonSpace(s, p + 1) ELSE p

\* a literal of a pattern with the i flag, matched at position p
LiteralAtIgnoreCase(s, p, lit) ==
    /\ p >= 1
    /\ p + Len(lit) - 1 <= Len(s)
    /\ \A k \in 1..Len(lit) : LowerChar(s[p + k - 1]) = LowerChar(lit[k])

NoMatch == [found |-> FALSE]

----
\* extractMCVersion: /Minecraft\s+(\d+\.\d+(?:\.\d+)?)/i

\* the pattern tried at position p only
VersionMatchAt(s, p) ==
    LET a == p + Len(MinecraftWord)
        b == SpanClass(s, a, Whitespace)
        c == SpanClass(s, b, Digits)
        d == SpanClass(s, c + 1, Digits)
        e == SpanClass(s, d + 1, Digits)
        ok == /\ LiteralAtIgnoreCase(s, p, MinecraftWord)
              /\ b > a
              /\ c > b
              /\ CharAt(s, c) = "."
              /\ d > c + 1
        patch == CharAt(s, d) = "." /\ e > d + 1
        end == IF patch THEN e ELSE d
    IN  IF ok
        THEN [found |-> TRUE, index |-> p - 1, end |-> end - 1,
              g1 |-> SubSeq(s, b, end - 1)]
        ELSE NoMatch

\* String.prototype.match without the g flag: the leftmost match from p on
RECURSIVE VersionSearch(_, _)
VersionSearch(s, p) ==
    IF p > Len(s) THEN NoMatch
    ELSE IF VersionMatchAt(s, p).found THEN VersionMatchAt(s, p)
    ELSE VersionSearch(s, p + 1)

\* the rightmost match instead of the leftmost
RECURSIVE VersionSearchLast(_, _)
VersionSearchLast(s, p) ==
    IF p < 1 THEN NoMatch
    ELSE IF VersionMatchAt(s, p).found THEN VersionMatchAt(s, p)
    ELSE VersionSearchLast(s, p - 1)

extractMCVersionLast(c) ==
    LET match == VersionSearchLast(c, Len(c))
    IN  IF match.found THEN match.g1 ELSE Unknown

\* the fallback written as the empty string
extractMCVersionEmpty(c) ==
    LET match == VersionSearch(c, 1)
    IN  IF match.found THEN match.g1 ELSE << >>

\* lines 131-134
extractMCVersion(c) ==
    LET match == VersionSearch(c, 1)
    IN  IF match.found THEN match.g1 ELSE Unknown

\* the forge test placed before the fabric test
extractLoaderForgeFirst(c) ==
    IF includes(toLowerCase(c), LowerForge) THEN Forge
    ELSE IF includes(toLowerCase(c), LowerFabric) THEN Fabric
    ELSE Unknown

\* lines 136-140
extractLoader(c) ==
    IF includes(toLowerCase(c), LowerFabric) THEN Fabric
    ELSE IF includes(toLowerCase(c), LowerForge) THEN Forge
    ELSE Unknown

----
\* depRegex: /(?:Mod|mod) (\S+) requires (\S+)/gi

\* the second group made lazy (\S+?): it stops after one character
DepMatchAtLazy(s, p) ==
    LET x == p + Len(ModWord) + 1
        xe == SpanNonSpace(s, x)
        y == xe + Len(RequiresWord)
        ok == /\ LiteralAtIgnoreCase(s, p, ModWord)
              /\ CharAt(s, x - 1) = " "
              /\ xe > x
              /\ LiteralAtIgnoreCase(s, xe, RequiresWord)
              /\ SpanNonSpace(s, y) > y
    IN  IF ok
        THEN [found |-> TRUE, index |-> p - 1, end |-> y,
              g1 |-> SubSeq(s, x, xe - 1), g2 |-> SubSeq(s, y, y)]
        ELSE NoMatch

\* the pattern tried at position p only
DepMatchAt(s, p) ==
    LET x == p + Len(ModWord) + 1
        xe == SpanNonSpace(s, x)
        y == xe + Len(RequiresWord)
        ye == SpanNonSpace(s, y)
        ok == /\ LiteralAtIgnoreCase(s, p, ModWord)
              /\ CharAt(s, x - 1) = " "
              /\ xe > x
              /\ LiteralAtIgnoreCase(s, xe, RequiresWord)
              /\ ye > y
    IN  IF ok
        THEN [found |-> TRUE, index |-> p - 1, end |-> ye - 1,
              g1 |-> SubSeq(s, x, xe - 1), g2 |-> SubSeq(s, y, ye - 1)]
        ELSE NoMatch

RECURSIVE DepSearch(_, _)
DepSearch(s, p) ==
    IF p > Len(s) THEN NoMatch
    ELSE IF DepMatchAt(s, p).found THEN DepMatchAt(s, p)
    ELSE DepSearch(s, p + 1)

\* RegExp.prototype.exec with the g flag: the leftmost match at or after
\* index li, or no match
exec(s, li) == IF li > Len(s) THEN NoMatch ELSE DepSearch(s, li + 1)

\* the pattern without the g flag: exec leaves lastIndex alone
LastIndexAfterNoGlobal(m, li) == li

\* lastIndex after exec returned m: the end of the match, 0 after a failure
LastIndexAfter(m, li) == IF m.found THEN m.end ELSE 0

----
\* parseLogContent

\* the download links built from the requiring mod (match[1])
downloadInfoOfRequirer(m) ==
    [name |-> m.g1,
     pageUrl |-> PagePrefix \o m.g1,
     versionUrl |-> PagePrefix \o m.g1 \o VersionSuffix,
     downloadUrl |-> CdnPrefix \o m.g1 \o DownloadSuffix]

\* the template literals of downloadInfo, all filled from match[2]
downloadInfo(m) ==
    [name |-> m.g2,
     pageUrl |-> PagePrefix \o m.g2,
     versionUrl |-> PagePrefix \o m.g2 \o VersionSuffix,
     downloadUrl |-> CdnPrefix \o m.g2 \o DownloadSuffix]

\* the object pushed for one match
missingDep(m) == [mod |-> m.g1, required |-> m.g2, downloadInfo |-> downloadInfo(m)]

\* a push that skips a finding already in the list
pushMissingDepOnce(deps, m) ==
    IF \E i \in 1..Len(deps) : deps[i] = missingDep(m)
    THEN deps
    ELSE Append(deps, missingDep(m))

\* results.missingDeps.push({...})
pushMissingDep(deps, m) == Append(deps, missingDep(m))

MissingClassError ==
    [type |-> "Missing Class",
     reason |-> "Missing dependency or corrupted mod",
     solution |-> "Reinstall the mod or check for missing dependencies"]

MixinConflictError ==
    [type |-> "Mixin Conflict",
     reason |-> "Incompatible mods modifying the same code",
     solution |-> "Remove conflicting mods one by one to identify the issue"]

\* the number of positions of s at which sub occurs
CountOccurrences(s, sub) ==
    Cardinality({i \in 1..(Len(s) - Len(sub) + 1) :
                    SubSeq(s, i, i + Len(sub) - 1) = sub})

\* n copies of the finding e
RECURSIVE Repeat(_, _)
Repeat(e, n) == IF n <= 0 THEN << >> ELSE <<e>> \o Repeat(e, n - 1)

\* one Mixin Conflict finding pushed per occurrence of the signature
pushErrorsPerOccurrence(errors, c) ==
    errors
      \o (IF includes(c, ClassNotFoundException) THEN <<MissingClassError>> ELSE << >>)
      \o Repeat(MixinConflictError, CountOccurrences(c, Mixin))

\* the two signature tests, in source order
pushErrors(errors, c) ==
    errors
      \o (IF includes(c, ClassNotFoundException) THEN <<MissingClassError>> ELSE << >>)
      \o (IF includes(c, Mixin) THEN <<MixinConflictError>> ELSE << >>)

\* the lists of the earlier call kept instead of fresh ones
newResultsKeepingLists(prev, c) ==
    [errors |-> prev.errors,
     missingDeps |-> prev.missingDeps,
     mcVersion |-> extractMCVersion(c),
     loader |-> extractLoader(c)]

\* the object literal that starts a call; prev, whatever an earlier call
\* left behind, is not read
newResults(prev, c) ==
    [errors |-> << >>,
     missingDeps |-> << >>,
     mcVersion |-> extractMCVersion(c),
     loader |-> extractLoader(c)]

\* the while loop run to its end from lastIndex li
RECURSIVE depLoop(_, _, _)
depLoop(c, li, deps) ==
    LET match == exec(c, li)
    IN  IF match.found
        THEN depLoop(c, LastIndexAfter(match, li), pushMissingDep(deps, match))
        ELSE deps

\* the value parseLogContent(c) returns when the earlier call left prev
parseLogContent(prev, c) ==
    LET r == newResults(prev, c)
    IN  [r EXCEPT !.missingDeps = depLoop(c, 0, @),
                  !.errors = pushErrors(@, c)]

\* before any call there is no results object
NoResults ==
    [errors |-> << >>, missingDeps |-> << >>, mcVersion |-> << >>, loader |-> << >>]

----
\* The inputs: named texts, and every concatenation of at most MaxFrags fragments

TextSodium ==
    <<"M", "o", "d", " ", "S", "o", "d", "i", "u", "m", " ", "r", "e", "q", "u", "i", "r", "e", "s", " ", "M", "o", "d", " ", "F", "a", "b", "r", "i", "c", "A", "P", "I">>

TextNoSignal ==
    <<"n", "o", " ", "v", "e", "r", "s", "i", "o", "n", " ", "o", "r", " ", "l", "o", "a", "d", "e", "r", " ", "m", "e", "n", "t", "i", "o", "n", "e", "d">>

TextOverlap ==
    <<"m", "o", "d", " ", "a", " ", "r", "e", "q", "u", "i", "r", "e", "s", " ", "m", "o", "d", " ", "b", " ", "r", "e", "q", "u", "i", "r", "e", "s", " ", "c">>

TextSpecEnv ==
    <<"x", " ", "M", "i", "n", "e", "c", "r", "a", "f", "t", " ", "1", ".", "2", "0", ".", "1", " ", "y", " ", "F", "a", "b", "r", "i", "c", " ", "z">>

TextTabVersion ==
    <<"M", "i", "n", "e", "c", "r", "a", "f", "t", "\t", " ", "1", ".", "7", ".", "1", "0", ".", "2", " ", "f", "o", "r", "g", "e">>

TextBadVersion ==
    <<"M", "i", "n", "e", "c", "r", "a", "f", "t", " ", "1", "2", " ", "M", "i", "n", "e", "c", "r", "a", "f", "t", " ", "1", ".", ".", "2", " ", "M", "i", "n", "e", "c", "r", "a", "f", "t", " ", "1", ".", "x", " ", "m", "i", "n", "e", "c", "r", "a", "f", "t", " ", "1", ".", "8", ".">>

TextLines ==
    <<"m", "o", "d", " ", "a", " ", "r", "e", "q", "u", "i", "r", "e", "s", " ", "b", "\n", "m", "o", "d", " ", "a", " ", "r", "e", "q", "u", "i", "r", "e", "s", " ", "b", "\n", "M", "i", "x", "i", "n", " ", "M", "i", "x", "i", "n">>

FragDep ==
    <<"m", "o", "d", " ", "a", " ", "r", "e", "q", "u", "i", "r", "e", "s", " ", "b">>

FragDepUpper ==
    <<"M", "O", "D", " ", "x", " ", "R", "E", "Q", "U", "I", "R", "E", "S", " ", "y">>

FragSpace ==
    <<" ">>

FragNewline ==
    <<"\n">>

FragVersion ==
    <<"M", "i", "n", "e", "c", "r", "a", "f", "t", " ", "1", ".", "2", "0", ".", "1">>

FragVersionLower ==
    <<"m", "i", "n", "e", "c", "r", "a", "f", "t", " ", "1", ".", "7">>

FragFabric ==
    <<"F", "a", "b", "r", "i", "c">>

FragForgeMixin ==
    <<"F", "O", "R", "G", "E", " ", "m", "i", "x", "i", "n">>

FragClass ==
    <<"C", "l", "a", "s", "s", "N", "o", "t", "F", "o", "u", "n", "d", "E", "x", "c", "e", "p", "t", "i", "o", "n">>

FragMixin ==
    <<"M", "i", "x", "i", "n">>

TextSpaced ==
    <<"m", "o", "d", " ", "a", " ", "r", "e", "q", "u", "i", "r", "e", "s", " ", "b", " ", "M", "O", "D", " ", "x", " ", "R", "E", "Q", "U", "I", "R", "E", "S", " ", "y", " ", "m", "o", "d", " ", "a", " ", "r", "e", "q", "u", "i", "r", "e", "s", " ", "b">>

NamedTexts ==
    {TextSodium, TextNoSignal, TextOverlap, TextSpecEnv, TextTabVersion,
     TextBadVersion, TextLines, TextSpaced}

Fragments ==
    {FragDep, FragDepUpper, FragNewline, FragVersion, FragVersionLower,
     FragFabric, FragForgeMixin, FragClass, FragMixin}

MaxFrags == 3

\* the fragments that bear on the dependency loop
LoopFragments == {FragDep, FragDepUpper, FragSpace, FragNewline, FragMixin}

RECURSIVE Concatenations(_, _)
Concatenations(F, n) ==
    IF n = 0 THEN {<< >>}
    ELSE Concatenations(F, n - 1)
           \cup {t \o f : t \in Concatenations(F, n - 1), f \in F}

Texts == NamedTexts \cup Concatenations(Fragments, MaxFrags)

\* the inputs of the specification that states fairness
LoopTexts == NamedTexts \cup Concatenations(LoopFragments, MaxFrags)

\* the texts analysed again after an earlier analysis
RepeatTexts ==
    {<< >>, TextSodium, TextLines, TextSpecEnv, FragClass \o FragMixin,
     FragDep \o FragSpace \o FragDepUpper}

\* the texts handed to analyzeLog
PageTexts == {<< >>, TextLines, TextNoSignal}

MaxPending == 2

TickMs == 500

----
\* State machine

AnalyzeDelay == 1500

ScanDelay == 1000

MaxCalls == 3

NotRendered == [rendered |-> FALSE, report |-> NoResults, noIssues |-> FALSE]

Init ==
    /\ content = << >>
    /\ results = NoResults
    /\ lastIndex = 0
    /\ matches = << >>
    /\ pc = "idle"
    /\ calls = 0
    /\ loadingDisplay = ""
    /\ resultsDisplay = ""
    /\ resultsContent = NotRendered
    /\ timers = << >>

\* parseLogContent, lines 87-96: the results object and a new depRegex
enterParseLogContent(c) ==
    /\ content' = c
    /\ results' = newResults(results, c)
    /\ lastIndex' = 0
    /\ matches' = << >>
    /\ pc' = "loop"

\* one test of the while condition, and the body when it holds
DepLoopStep ==
    /\ pc = "loop"
    /\ LET match == exec(content, lastIndex)
       IN  /\ lastIndex' = LastIndexAfter(match, lastIndex)
           /\ IF match.found
              THEN /\ results' = [results EXCEPT
                                    !.missingDeps = pushMissingDep(@, match)]
                   /\ matches' = Append(matches, match)
                   /\ pc' = "loop"
              ELSE /\ UNCHANGED <<results, matches>>
                   /\ pc' = "errors"
    /\ UNCHANGED <<content, calls, uiVars>>

\* lines 111-128: the two signature tests, then return
DetectOtherErrors ==
    /\ pc = "errors"
    /\ results' = [results EXCEPT !.errors = pushErrors(@, content)]
    /\ pc' = "done"
    /\ UNCHANGED <<content, lastIndex, matches, calls, uiVars>>

\* a caller invokes parseLogContent(c): the first call on any text of first,
\* a later call on one of RepeatTexts
CallOn(first) ==
    /\ pc \in {"idle", "done"}
    /\ calls < MaxCalls
    /\ calls' = calls + 1
    /\ \E c \in (IF calls = 0 THEN first ELSE RepeatTexts) :
          enterParseLogContent(c)
    /\ UNCHANGED uiVars

Call == CallOn(Texts)

Next == Call \/ DepLoopStep \/ DetectOtherErrors

Spec == Init /\ [][Next]_vars

\* The body of parseLogContent is synchronous code: once entered it runs on,
\* which is weak fairness of its steps.
LoopCall == CallOn(LoopTexts)

LoopNext == LoopCall \/ DepLoopStep \/ DetectOtherErrors

FairSpec ==
    Init /\ [][LoopNext]_vars /\ WF_vars(DepLoopStep) /\ WF_vars(DetectOtherErrors)

----
\* The page: analyzeLog, scanModsFolder, their timers, showLoading

\* showLoading(show), as the pair <<loading display, results display>>
showLoading(show) ==
    <<IF show THEN "block" ELSE "none", IF show THEN "none" ELSE "block">>

\* what displayResults(r) writes to #results-content
displayResults(r) ==
    [rendered |-> TRUE,
     report |-> r,
     noIssues |-> Len(r.errors) = 0 /\ Len(r.missingDeps) = 0]

\* setTimeout(callback, delay)
setTimeout(kind, delay, logContent) ==
    Append(timers, [kind |-> kind, remaining |-> delay, logContent |-> logContent])

\* the pending timer that runs next: the first due one in creation order
DueTimer ==
    IF \E i \in 1..Len(timers) : timers[i].remaining = 0
    THEN CHOOSE i \in 1..Len(timers) :
            /\ timers[i].remaining = 0
            /\ \A j \in 1..(i - 1) : timers[j].remaining # 0
    ELSE 0

RemoveAt(q, i) == SubSeq(q, 1, i - 1) \o SubSeq(q, i + 1, Len(q))

\* analyzeLog(logContent), lines 74-83, up to the setTimeout call
AnalyzeLog ==
    /\ pc = "idle"
    /\ Len(timers) < MaxPending
    /\ \E logContent \in PageTexts :
          timers' = setTimeout("analyze", AnalyzeDelay, logContent)
    /\ loadingDisplay' = showLoading(TRUE)[1]
    /\ resultsDisplay' = showLoading(TRUE)[2]
    /\ UNCHANGED <<engineVars, resultsContent>>

\* scanModsFolder(files), lines 218-226, up to the setTimeout call
ScanModsFolder ==
    /\ pc = "idle"
    /\ Len(timers) < MaxPending
    /\ timers' = setTimeout("scan", ScanDelay, << >>)
    /\ loadingDisplay' = showLoading(TRUE)[1]
    /\ resultsDisplay' = showLoading(TRUE)[2]
    /\ UNCHANGED <<engineVars, resultsContent>>

\* time passes while no callback runs and no timer is due
Tick ==
    /\ pc = "idle"
    /\ timers # << >>
    /\ DueTimer = 0
    /\ timers' = [i \in 1..Len(timers) |->
                    [timers[i] EXCEPT
                       !.remaining = IF @ > TickMs THEN @ - TickMs ELSE 0]]
    /\ UNCHANGED <<engineVars, loadingDisplay, resultsDisplay, resultsContent>>

\* the analyzeLog callback starts: parseLogContent(logContent) is entered
AnalyzeTimerFires ==
    /\ pc = "idle"
    /\ DueTimer # 0
    /\ timers[DueTimer].kind = "analyze"
    /\ enterParseLogContent(timers[DueTimer].logContent)
    /\ timers' = RemoveAt(timers, DueTimer)
    /\ UNCHANGED <<calls, loadingDisplay, resultsDisplay, resultsContent>>

\* the analyzeLog callback after parseLogContent returned:
\* displayResults(results); showLoading(false)
AnalyzeCallbackEnds ==
    /\ pc = "done"
    /\ resultsContent' = displayResults(results)
    /\ loadingDisplay' = showLoading(FALSE)[1]
    /\ resultsDisplay' = showLoading(FALSE)[2]
    /\ pc' = "idle"
    /\ UNCHANGED <<content, results, lastIndex, matches, calls, timers>>

\* the scanModsFolder callback: alert(...); showLoading(false)
ScanTimerFires ==
    /\ pc = "idle"
    /\ DueTimer # 0
    /\ timers[DueTimer].kind = "scan"
    /\ timers' = RemoveAt(timers, DueTimer)
    /\ loadingDisplay' = showLoading(FALSE)[1]
    /\ resultsDisplay' = showLoading(FALSE)[2]
    /\ UNCHANGED <<engineVars, resultsContent>>

PageNext ==
    \/ AnalyzeLog
    \/ ScanModsFolder
    \/ Tick
    \/ AnalyzeTimerFires
    \/ DepLoopStep
    \/ DetectOtherErrors
    \/ AnalyzeCallbackEnds
    \/ ScanTimerFires

PageSpec == Init /\ [][PageNext]_vars

----
\* Properties

Sodium ==
    <<"S", "o", "d", "i", "u", "m">>

FabricAPI ==
    <<"F", "a", "b", "r", "i", "c", "A", "P", "I">>

ModToken ==
    <<"M", "o", "d">>

LowerUnknown ==
    <<"u", "n", "k", "n", "o", "w", "n">>

Version17 == <<"1", ".", "7">>

deps == results.missingDeps

\* word occurs in s, letter case ignored
OccursIgnoreCase(s, word) == \E p \in 1..Len(s) : LiteralAtIgnoreCase(s, p, word)

\* t is a version token: digit groups separated by one or two dots
IsVersionToken(t) ==
    /\ Len(t) >= 3
    /\ \A k \in 1..Len(t) : t[k] \in Digits \cup {"."}
    /\ t[1] # "." /\ t[Len(t)] # "."
    /\ \A k \in 1..(Len(t) - 1) : ~(t[k] = "." /\ t[k + 1] = ".")
    /\ Cardinality({k \in 1..Len(t) : t[k] = "."}) \in {1, 2}

\* the version tokens that start at position q of s
TokensAt(s, q) ==
    {t \in {SubSeq(s, q, e) : e \in q..Len(s)} : IsVersionToken(t)}

\* the positions q at which a version token follows the word at p and
\* a non-empty run of whitespace
TokenStarts(s, p) ==
    {q \in (p + Len(MinecraftWord) + 1)..Len(s) :
        /\ \A k \in (p + Len(MinecraftWord))..(q - 1) : s[k] \in Whitespace
        /\ TokensAt(s, q) # {}}

\* the positions at which "Minecraft", in any letter case (exact = FALSE) or
\* spelled exactly so (exact = TRUE), is followed by whitespace and a token
VersionOccurrences(s, exact) ==
    {p \in 1..Len(s) :
        /\ LiteralAtIgnoreCase(s, p, MinecraftWord)
        /\ exact => SubSeq(s, p, p + Len(MinecraftWord) - 1) = MinecraftWord
        /\ TokenStarts(s, p) # {}}

Least(S) == CHOOSE x \in S : \A y \in S : x <= y

\* the longest version token of the occurrence at p
TokenOf(s, p) ==
    LET q == Least(TokenStarts(s, p))
    IN  CHOOSE t \in TokensAt(s, q) : \A u \in TokensAt(s, q) : Len(u) <= Len(t)

\* the reported version when the occurrences are those of VersionOccurrences
VersionBy(s, exact) ==
    IF VersionOccurrences(s, exact) = {} THEN Unknown
    ELSE TokenOf(s, Least(VersionOccurrences(s, exact)))

\* the error categories of the report, in order
ErrorTypes == [i \in 1..Len(results.errors) |-> results.errors[i].type]

\* C1 as stated: analysing "Mod Sodium requires Mod FabricAPI" gives exactly
\* one finding, Sodium requiring FabricAPI, with "FabricAPI" in all three URLs.
C1_Original ==
    (pc = "done" /\ content = TextSodium) =>
        /\ Len(deps) = 1
        /\ deps[1].mod = Sodium
        /\ deps[1].required = FabricAPI
        /\ includes(deps[1].downloadInfo.pageUrl, FabricAPI)
        /\ includes(deps[1].downloadInfo.versionUrl, FabricAPI)
        /\ includes(deps[1].downloadInfo.downloadUrl, FabricAPI)

\* C1 amended: the one finding has Sodium requiring "Mod", the token that
\* follows "requires", and the three URLs embed "Mod" and not "FabricAPI".
C1_SodiumRequiresMod ==
    (pc = "done" /\ content = TextSodium) =>
        /\ Len(deps) = 1
        /\ deps[1].mod = Sodium
        /\ deps[1].required = ModToken
        /\ \A url \in {deps[1].downloadInfo.pageUrl,
                       deps[1].downloadInfo.versionUrl,
                       deps[1].downloadInfo.downloadUrl} :
              includes(url, ModToken) /\ ~includes(url, FabricAPI)

C1_Witness ==
    pc = "done" /\ content = TextSodium /\ Len(deps) = 1

\* C2: a text with both "fabric" and "forge", in any letter case and order,
\* has loader Fabric; the loader is Forge exactly when "forge" occurs and
\* "fabric" does not.
C2_FabricBeforeForge ==
    pc # "idle" =>
        /\ (OccursIgnoreCase(content, LowerFabric) /\ OccursIgnoreCase(content, LowerForge))
              => results.loader = Fabric
        /\ results.loader = Forge
              <=> (OccursIgnoreCase(content, LowerForge)
                     /\ ~OccursIgnoreCase(content, LowerFabric))

\* both words occur, "forge" first and in upper case
C2_Witness ==
    /\ pc = "done"
    /\ content = FragForgeMixin \o FragFabric
    /\ results.loader = Fabric

\* C3 as stated: without a version occurrence the version is "unknown",
\* without "fabric" and "forge" the loader is "unknown".
C3_Original ==
    pc # "idle" =>
        /\ VersionOccurrences(content, FALSE) = {} => results.mcVersion = LowerUnknown
        /\ (~OccursIgnoreCase(content, LowerFabric) /\ ~OccursIgnoreCase(content, LowerForge))
              => results.loader = LowerUnknown

\* C3 amended: the two fallback values are the string "Unknown".
C3_UnknownCapitalised ==
    pc # "idle" =>
        /\ VersionOccurrences(content, FALSE) = {} => results.mcVersion = Unknown
        /\ (~OccursIgnoreCase(content, LowerFabric) /\ ~OccursIgnoreCase(content, LowerForge))
              => results.loader = Unknown
        /\ content = TextNoSignal
              => results.mcVersion = Unknown /\ results.loader = Unknown

C3_Witness ==
    /\ pc = "done"
    /\ content = TextNoSignal
    /\ results.mcVersion = Unknown
    /\ results.loader = Unknown

\* C4 as stated: the version is the token of the first occurrence of
\* "Minecraft", spelled exactly so, followed by whitespace and a token; without
\* such an occurrence there is no version.
C4_Original ==
    pc # "idle" => results.mcVersion = VersionBy(content, TRUE)

\* C4 amended: the same with "Minecraft" matched in any letter case.
C4_FirstOccurrenceAnyCase ==
    pc # "idle" => results.mcVersion = VersionBy(content, FALSE)

\* two occurrences with different tokens, the first one in lower case
C4_Witness ==
    /\ pc = "done"
    /\ Cardinality(VersionOccurrences(content, FALSE)) = 2
    /\ Cardinality(VersionOccurrences(content, TRUE)) = 1
    /\ Least(VersionOccurrences(content, FALSE)) \notin VersionOccurrences(content, TRUE)
    /\ results.mcVersion = Version17

\* C5: the errors list is <<Missing Class iff "ClassNotFoundException" occurs>>
\* followed by <<Mixin Conflict iff "Mixin" occurs>>, each at most once.
C5_OneFindingPerCategory ==
    pc = "done" =>
        ErrorTypes =
            (IF CountOccurrences(content, ClassNotFoundException) > 0
             THEN <<"Missing Class">> ELSE << >>)
            \o (IF CountOccurrences(content, Mixin) > 0
                THEN <<"Mixin Conflict">> ELSE << >>)

\* a signature that occurs twice, and both categories
C5_Witness ==
    /\ pc = "done"
    /\ CountOccurrences(content, ClassNotFoundException) >= 2
    /\ CountOccurrences(content, Mixin) >= 1
    /\ ErrorTypes = <<"Missing Class", "Mixin Conflict">>

\* C6: when the loop has ended the findings are, one for one and in text
\* order, the successive matches of the pattern: each is a match of the pattern
\* where exec found it, each starts at or after the end of the one before, and
\* every position where the pattern matches lies inside one of them.  Equal
\* findings are kept.
C6_OneFindingPerMatch ==
    pc \in {"errors", "done"} =>
        /\ Len(deps) = Len(matches)
        /\ \A j \in 1..Len(matches) :
              /\ matches[j] = DepMatchAt(content, matches[j].index + 1)
              /\ deps[j].mod = matches[j].g1
              /\ deps[j].required = matches[j].g2
              /\ j > 1 => matches[j - 1].end <= matches[j].index
        /\ \A p \in 1..Len(content) :
              DepMatchAt(content, p).found =>
                 \E j \in 1..Len(matches) :
                    matches[j].index < p /\ p <= matches[j].end

\* the same statement twice gives two equal findings
C6_Witness ==
    /\ pc = "done"
    /\ Len(deps) = 2
    /\ deps[1] = deps[2]

\* C7: the three URLs of every finding are the fixed templates filled with
\* the finding's required mod.
C7_DownloadUrls ==
    \A i \in 1..Len(deps) :
        /\ deps[i].downloadInfo.pageUrl = PagePrefix \o deps[i].required
        /\ deps[i].downloadInfo.versionUrl
              = PagePrefix \o deps[i].required \o VersionSuffix
        /\ deps[i].downloadInfo.downloadUrl
              = CdnPrefix \o deps[i].required \o DownloadSuffix

\* a finding in a text whose game version was detected
C7_Witness ==
    /\ pc = "done"
    /\ results.mcVersion # Unknown
    /\ Len(deps) >= 1
    /\ deps[1].mod # deps[1].required

\* C8: every iteration that finds a match moves lastIndex forward inside the
\* text, and a call that entered the loop returns.
C8_Terminates ==
    /\ [][(pc = "loop" /\ pc' = "loop")
            => (lastIndex' > lastIndex /\ lastIndex' <= Len(content))]_vars
    /\ (pc = "loop") ~> (pc = "done")

C8_Witness ==
    /\ pc = "done"
    /\ Len(matches) >= 2
    /\ lastIndex = 0

\* C9: the report of a call that has returned is the report of a first call on
\* the same text, whatever was analysed before, and no match position is left.
C9_PureFunction ==
    pc = "done" =>
        /\ results = parseLogContent(NoResults, content)
        /\ lastIndex = 0

\* a later call on a text with findings
C9_Witness ==
    /\ pc = "done"
    /\ calls >= 2
    /\ Len(deps) >= 1
    /\ Len(results.errors) >= 1

\* C10 as stated: while a timer is pending the loading indicator is shown and
\* the results panel hidden, and the results panel is shown only after an
\* analysis rendered into it.
C10_LoadingWhilePending ==
    /\ timers # << >> => (loadingDisplay = "block" /\ resultsDisplay = "none")
    /\ resultsDisplay = "block" => resultsContent.rendered

====
